---------------------------- MODULE Spec2Model ----------------------------
(***************************************************************************)
(* Model of policy_gradient/logistic_policy.py: the LogisticPolicy class,  *)
(* run_episode and train.                                                  *)
(*                                                                         *)
(* Numbers.  The program computes in double precision; the model computes  *)
(* in exact fixed point, each quantity in its own unit:                    *)
(*   rewards, discounted rewards, total rewards : 1 / RScale               *)
(*   probabilities, logistic values, gradients  : 1 / SigScale             *)
(*   lr                                         : 1 / LrDen                *)
(*   gamma                                      : 1 / GammaDen             *)
(*   parameters (theta), y = x @ theta          : 1 / ThetaScale           *)
(* with ThetaScale = LrDen * SigScale * RScale, so that the products of    *)
(* update are exact.  Observations have integer components.  np.exp has no *)
(* integer counterpart: logistic is tabulated (LogisticTable) at multiples *)
(* of 1/2, rounded to 1/SigScale, and y is rounded to the nearest multiple *)
(* of 1/2 before the lookup.                                               *)
(***************************************************************************)
EXTENDS Integers, Sequences, FiniteSets, TLC

\* ------------------------------------------------------------------ bounds
\* Longest episode the modelled environment produces.
MaxLen == 2
\* Largest MAX_EPISODES passed to train.
MaxEpisodes == 2
\* Longest argument sequence handed to update / discount_rewards directly.
MaxT == 3
\* Number of evaluation episodes (range(100) in the source, scaled down).
EvalEpisodes == 2

\* ------------------------------------------------------------ fixed point
ObsDim == 4
LrDen == 2
GammaDen == 2
SigScale == 1000
RScale == 2 ^ (MaxT + MaxLen)
ThetaScale == LrDen * SigScale * RScale

Dims == 1..ObsDim

\* Observations the environment can produce (np arrays of shape (4,)).
ObsA == <<1, 0, -1, 0>>
ObsB == <<0, 1, 1, -1>>
ObsSet == { ObsA, ObsB }
\* Rewards an episode can contain: 1.0 and 2.0.
RewardSet == { RScale, 2 * RScale }
ActionSet == {0, 1}
\* Initial parameter vectors: zeros, and (1, 0, -1/2, 0).
ParamSet == { <<0, 0, 0, 0>>, <<ThetaScale, 0, -(ThetaScale \div 2), 0>> }
\* lr = 0.5 and 1.0; gamma = 0.5 and 1.0.
LrSet == {1, 2}
GammaSet == {1, 2}
\* What train is called with: params = (1, 0, -1/2, 0), lr = 0.5, gamma = 0.5.
TrainParamSet == { <<ThetaScale, 0, -(ThetaScale \div 2), 0>> }
TrainLrSet == {1}
TrainGammaSet == {1}
\* Rewards handed to discount_rewards directly: 0.0, 1.0 and 2.0.
DiscountRewardSet == { 0, RScale, 2 * RScale }

Min(a, b) == IF a < b THEN a ELSE b

RECURSIVE SumTo(_, _)
\* f[1] + ... + f[n], added left to right.
SumTo(f, n) == IF n = 0 THEN 0 ELSE SumTo(f, n - 1) + f[n]

\* np.dot / @ of two vectors of one length.
Dot(x, th) == SumTo([j \in 1..Len(x) |-> x[j] * th[j]], Len(x))

\* --------------------------------------------------------- LogisticPolicy
\* 1000 / (1 + exp(-h/2)) for h = -8 .. 8, rounded.
LogisticTable ==
  <<18, 29, 47, 76, 119, 182, 269, 378, 500,
    622, 731, 818, 881, 924, 953, 971, 982>>

\* logistic(y): y in 1/ThetaScale, result in 1/SigScale.
logistic(y) ==
  LET h == (4 * y + ThetaScale) \div (2 * ThetaScale)
      c == IF h < -8 THEN -8 ELSE IF h > 8 THEN 8 ELSE h
  IN  LogisticTable[c + 9]

\* action_probs(x): <<prob0, 1 - prob0>> (index action + 1).
action_probs(th, x) ==
  LET prob0 == logistic(Dot(x, th))
  IN  <<prob0, SigScale - prob0>>

\* act(x): the set of (action, probs[action]) pairs np.random.choice can give.
act(th, x) ==
  LET probs == action_probs(th, x)
  IN  { <<a, probs[a + 1]>> : a \in {b \in ActionSet : probs[b + 1] > 0} }

\* grad_log_p(x): <<grad_log_p0, grad_log_p1>>, each a vector in 1/SigScale.
grad_log_p(th, x) ==
  LET s == logistic(Dot(x, th))
  IN  << [j \in 1..Len(x) |-> x[j] * SigScale - x[j] * s],
         [j \in 1..Len(x) |-> (-x[j]) * s] >>

\* DiscountStep with the reward discounted too: (cumulative + reward) * gamma.
DiscountStepRewardDiscounted(g, cumulative_rewards, reward) ==
  ((cumulative_rewards + reward) * g) \div GammaDen

\* One iteration of the loop of discount_rewards (lines 53-54) at index i
\* (1-based): the new cumulative_rewards.
DiscountStep(g, cumulative_rewards, reward) ==
  (cumulative_rewards * g) \div GammaDen + reward

RECURSIVE DiscountLoop(_, _, _, _, _, _)
\* The loop of discount_rewards (lines 52-54), i running from len(rewards)
\* down to 1; iterations counts the passes through the loop body.
DiscountLoop(g, rewards, i, cumulative_rewards, discounted_rewards, iterations) ==
  IF i = 0
    THEN [discounted_rewards |-> discounted_rewards, iterations |-> iterations]
    ELSE LET c == DiscountStep(g, cumulative_rewards, rewards[i])
         IN  DiscountLoop(g, rewards, i - 1, c,
                          [discounted_rewards EXCEPT ![i] = c], iterations + 1)

\* discount_rewards with the number of loop iterations it took.
DiscountRun(g, rewards) ==
  DiscountLoop(g, rewards, Len(rewards), 0, [k \in 1..Len(rewards) |-> 0], 0)

discount_rewards(g, rewards) == DiscountRun(g, rewards).discounted_rewards

\* grad_log_p_dot_rewards: np.dot(grad_log_p.T, discounted_rewards); the
\* actions argument is unused.  Defined when the row count of grad_log_p
\* (at least one row) equals len(discounted_rewards); result in
\* 1/(SigScale*RScale).
grad_log_p_dot_rewards(grad, actions, discounted_rewards) ==
  [j \in 1..Len(grad[1]) |->
     SumTo([k \in 1..Len(grad) |-> grad[k][j] * discounted_rewards[k]],
           Len(grad))]

\* update stepping against the gradient: params -= lr * dot.
updateDescent(th, l, g, rewards, obs, actions) ==
  LET n == Min(Len(obs), Len(actions))
      \* np.dot(x, self.params) in grad_log_p needs equal lengths
      widthOK == \A k \in 1..n : Len(obs[k]) = Len(th)
      grad == [k \in 1..n |-> grad_log_p(th, obs[k])[actions[k] + 1]]
      \* line 64; np.array of an empty list has shape (0,), never (0, 4)
      shapeOK == /\ n >= 1
                 /\ n = Len(obs)
                 /\ \A k \in 1..n : Len(grad[k]) = ObsDim
      discounted_rewards == discount_rewards(g, rewards)
      dotOK == Len(discounted_rewards) = n
      dot == grad_log_p_dot_rewards(grad, actions, discounted_rewards)
  IN  IF ~widthOK THEN [raised |-> "ValueError", params |-> th]
      ELSE IF ~shapeOK THEN [raised |-> "AssertionError", params |-> th]
      ELSE IF ~dotOK THEN [raised |-> "ValueError", params |-> th]
      ELSE [raised |-> "none",
            params |-> [j \in 1..Len(th) |-> th[j] - l * dot[j]]]

\* update(rewards, obs, actions) on parameters th: the exception raised
\* ("none" when it returns) and the parameters afterwards.
update(th, l, g, rewards, obs, actions) ==
  LET n == Min(Len(obs), Len(actions))                      \* zip
      \* np.dot(x, self.params) in grad_log_p needs equal lengths
      widthOK == \A k \in 1..n : Len(obs[k]) = Len(th)
      grad == [k \in 1..n |-> grad_log_p(th, obs[k])[actions[k] + 1]]
      \* line 64; np.array of an empty list has shape (0,), never (0, 4)
      shapeOK == /\ n >= 1
                 /\ n = Len(obs)
                 /\ \A k \in 1..n : Len(grad[k]) = ObsDim
      discounted_rewards == discount_rewards(g, rewards)
      dotOK == Len(discounted_rewards) = n
      dot == grad_log_p_dot_rewards(grad, actions, discounted_rewards)
  IN  IF ~widthOK THEN [raised |-> "ValueError", params |-> th]
      ELSE IF ~shapeOK THEN [raised |-> "AssertionError", params |-> th]
      ELSE IF ~dotOK THEN [raised |-> "ValueError", params |-> th]
      ELSE [raised |-> "none",
            params |-> [j \in 1..Len(th) |-> th[j] + l * dot[j]]]


\* ------------------------------------------------------------------ state
VARIABLES
  pc,               \* position in train / run_episode
  heap,             \* numpy arrays by reference: reference -> contents
  params,           \* train's argument params: a reference into heap
  lr, gamma,        \* train's arguments lr, gamma
  MAX_EPISODES,     \* train's argument
  evaluate,         \* train's argument
  policy,           \* the LogisticPolicy object: [params (a reference), lr, gamma]
  i,                \* iterations of the training loop completed
  episode_rewards,  \* train's result list
  ret,              \* train's locals total_reward, rewards, observations, actions, probs
  evalCount,        \* iterations of the evaluation loop completed
  caller,           \* call site run_episode returns to: "train" or "eval"
  ep,               \* run_episode's frame: observation, totalreward, the four lists, done
  envTerminates,    \* whether the environment ever reports done
  envStart,         \* the observation the environment's reset returns
  envSteps,         \* env.step calls since the last env.reset
  params0,          \* history: contents of the caller's array when train was called
  updateCount,      \* history: number of policy.update calls that returned
  updateArgs,       \* history: arguments of the last policy.update call
  updateSums,       \* history: per update call, the sum of the rewards it was passed
  thetaSet,         \* history: parameters after construction / the last update made by train
  thetaAtReset,     \* history: parameters when run_episode last called env.reset
  resetObs,         \* history: observation returned by the last env.reset
  envLog,           \* history: per env.step since reset, [action, reward, obs, done]
  actLog,           \* history: per policy.act since reset, [x, action, prob, theta, updates]
  arg               \* direct call of update / discount_rewards: arguments and result

vars == << pc, heap, params, lr, gamma, MAX_EPISODES, evaluate, policy, i,
           episode_rewards, ret, evalCount, caller, ep, envTerminates,
           envStart, envSteps, params0, updateCount, updateArgs, updateSums, thetaSet,
           thetaAtReset, resetObs, envLog, actLog, arg >>

trainVars == << params, lr, gamma, MAX_EPISODES, evaluate, envTerminates,
               envStart, params0, arg >>

\* The one array train is handed.
CallerRef == 1

NoFrame ==
  [observation |-> <<>>, totalreward |-> 0, observations |-> <<>>,
   actions |-> <<>>, rewards |-> <<>>, probs |-> <<>>, done |-> FALSE]
NoRet ==
  [total_reward |-> 0, rewards |-> <<>>, observations |-> <<>>,
   actions |-> <<>>, probs |-> <<>>]
NoArgs == [rewards |-> <<>>, obs |-> <<>>, actions |-> <<>>]
NoPolicy == [params |-> 0, lr |-> 0, gamma |-> 0]
NoArg == [op |-> "none"]

\* Current parameter vector of the policy (policy.params dereferenced).
theta == heap[policy.params]

\* State at the call train(env, params, lr, gamma, LogisticPolicy, MAX_EPISODES,
\* evaluate=...): the caller holds one array; nothing of train has run.
Init ==
  /\ pc = "start"
  /\ \E p \in TrainParamSet : heap = [r \in {CallerRef} |-> p] /\ params0 = p
  /\ params = CallerRef
  /\ lr \in TrainLrSet
  /\ gamma \in TrainGammaSet
  /\ MAX_EPISODES \in 0..MaxEpisodes
  /\ evaluate \in BOOLEAN
  /\ envTerminates \in BOOLEAN
  /\ envStart \in ObsSet
  /\ policy = NoPolicy
  /\ i = 0
  /\ episode_rewards = <<>>
  /\ ret = NoRet
  /\ evalCount = 0
  /\ caller = "none"
  /\ ep = NoFrame
  /\ envSteps = 0
  /\ updateCount = 0
  /\ updateArgs = NoArgs
  /\ updateSums = <<>>
  /\ thetaSet = <<>>
  /\ thetaAtReset = <<>>
  /\ resetObs = <<>>
  /\ envLog = <<>>
  /\ actLog = <<>>
  /\ arg = NoArg

\* LogisticPolicy.__init__: the object keeps the reference it is given.
LogisticPolicyInit(p, l, g) == [params |-> p, lr |-> l, gamma |-> g]

\* train, lines 124-127: episode_rewards = []; policy = policy(params, lr, gamma).
Construct ==
  /\ pc = "start"
  /\ episode_rewards' = <<>>
  /\ policy' = LogisticPolicyInit(params, lr, gamma)
  /\ thetaSet' = heap[params]
  /\ pc' = "loop"
  /\ UNCHANGED << heap, i, ret, evalCount, caller, ep, envSteps, updateCount,
                  updateArgs, updateSums, thetaAtReset, resetObs, envLog,
                  actLog >>
  /\ UNCHANGED trainVars

\* train, line 132 and 136: another iteration; calls run_episode(env, policy).
TrainNextEpisode ==
  /\ pc = "loop"
  /\ i < MAX_EPISODES
  /\ caller' = "train"
  /\ pc' = "reset"
  /\ UNCHANGED << heap, policy, i, episode_rewards, ret, evalCount, ep,
                  envSteps, updateCount, updateArgs, updateSums, thetaSet,
                  thetaAtReset, resetObs, envLog, actLog >>
  /\ UNCHANGED trainVars

\* run_episode, lines 78-86: observation = env.reset(); empty lists; done = False.
RunEpisodeReset ==
  /\ pc = "reset"
  /\ ep' = [NoFrame EXCEPT !.observation = envStart]
  /\ resetObs' = envStart
  /\ thetaAtReset' = theta
  /\ envSteps' = 0
  /\ envLog' = <<>>
  /\ actLog' = <<>>
  /\ pc' = "while"
  /\ UNCHANGED << heap, policy, i, episode_rewards, ret, evalCount, caller,
                  updateCount, updateArgs, updateSums, thetaSet >>
  /\ UNCHANGED trainVars

\* The environment train is given: a two-state process whose state is its
\* observation.  reset puts it in its start state envStart; step(action)
\* keeps the state on action 0 and changes it on action 1, and pays 1.0 or
\* 2.0 depending on state and action.
EnvNextObs(o, a) == IF a = 0 THEN o ELSE IF o = ObsA THEN ObsB ELSE ObsA
EnvReward(o, a) == IF (o = ObsA) = (a = 0) THEN RScale ELSE 2 * RScale

\* The done flags env.step can return on its next call: an environment whose
\* episodes terminate reports done at step MaxLen at the latest, one whose
\* episodes do not terminate never reports it.
EnvDone ==
  IF envTerminates
    THEN (IF envSteps + 1 >= MaxLen THEN {TRUE} ELSE BOOLEAN)
    ELSE {FALSE}

\* policy.update(rewards, obs, actions) as a step: the added vector is written
\* into the array policy.params refers to (line 73 is += on an ndarray); an
\* exception leaves the array as it was.
PolicyUpdate(rewards, obs, actions) ==
  LET u == update(theta, policy.lr, policy.gamma, rewards, obs, actions)
  IN  /\ heap' = [heap EXCEPT ![policy.params] = u.params]
      /\ updateArgs' = [rewards |-> rewards, obs |-> obs, actions |-> actions]
      /\ IF u.raised = "none"
           THEN /\ updateCount' = updateCount + 1
                /\ updateSums' = Append(updateSums, SumTo(rewards, Len(rewards)))
           ELSE UNCHANGED << updateCount, updateSums >>

\* The exception policy.update(rewards, obs, actions) ends with, "none" if it returns.
PolicyUpdateRaises(rewards, obs, actions) ==
  update(theta, policy.lr, policy.gamma, rewards, obs, actions).raised

\* The loop condition with a cap of one step on the episode.
WhileCondCapped == ~ep.done /\ Len(ep.rewards) < 1

\* run_episode's loop condition (line 88).
WhileCond == ~ep.done

\* StepFrame recording the observation after env.step instead of before it.
StepFrameAppendsAfterStep(f, action, prob, o, r, d) ==
  [observation |-> o,
   totalreward |-> f.totalreward + r,
   observations |-> Append(f.observations, o),
   actions |-> Append(f.actions, action),
   rewards |-> Append(f.rewards, r),
   probs |-> Append(f.probs, prob),
   done |-> d]

\* StepFrame with totalreward = reward instead of totalreward += reward.
StepFrameOverwritesTotal(f, action, prob, o, r, d) ==
  [observation |-> o,
   totalreward |-> r,
   observations |-> Append(f.observations, f.observation),
   actions |-> Append(f.actions, action),
   rewards |-> Append(f.rewards, r),
   probs |-> Append(f.probs, prob),
   done |-> d]

\* run_episode, lines 92-100: the frame after one loop iteration in which
\* policy.act returned (action, prob) and env.step returned (o, r, d, info).
StepFrame(f, action, prob, o, r, d) ==
  [observation |-> o,
   totalreward |-> f.totalreward + r,
   observations |-> Append(f.observations, f.observation),
   actions |-> Append(f.actions, action),
   rewards |-> Append(f.rewards, r),
   probs |-> Append(f.probs, prob),
   done |-> d]

\* RunEpisodeStep with the policy updated on every step from that step alone.
RunEpisodeStepOnlineUpdate ==
  /\ pc = "while"
  /\ WhileCond
  /\ envSteps < MaxLen
  /\ \E ap \in act(theta, ep.observation), d \in EnvDone :
     LET o == EnvNextObs(ep.observation, ap[1])
         r == EnvReward(ep.observation, ap[1])
     IN
       /\ ep' = StepFrame(ep, ap[1], ap[2], o, r, d)
       /\ actLog' = Append(actLog, [x |-> ep.observation, action |-> ap[1],
                                    prob |-> ap[2], theta |-> theta,
                                    updates |-> updateCount])
       /\ envLog' = Append(envLog, [action |-> ap[1], reward |-> r,
                                    obs |-> o, done |-> d])
       /\ heap' = [heap EXCEPT ![policy.params] =
                     update(theta, policy.lr, policy.gamma, <<r>>,
                            <<ep.observation>>, <<ap[1]>>).params]
  /\ envSteps' = envSteps + 1
  /\ UNCHANGED << pc, policy, i, episode_rewards, ret, evalCount,
                  caller, updateCount, updateArgs, updateSums, thetaSet,
                  thetaAtReset, resetObs >>
  /\ UNCHANGED trainVars

\* run_episode, lines 88-100: one iteration of the while loop.  The guard
\* envSteps < MaxLen stops the model, not the program: it only binds when the
\* environment never reports done.
RunEpisodeStep ==
  /\ pc = "while"
  /\ WhileCond
  /\ envSteps < MaxLen
  /\ \E ap \in act(theta, ep.observation), d \in EnvDone :
     LET o == EnvNextObs(ep.observation, ap[1])
         r == EnvReward(ep.observation, ap[1])
     IN
       /\ ep' = StepFrame(ep, ap[1], ap[2], o, r, d)
       /\ actLog' = Append(actLog, [x |-> ep.observation, action |-> ap[1],
                                    prob |-> ap[2], theta |-> theta,
                                    updates |-> updateCount])
       /\ envLog' = Append(envLog, [action |-> ap[1], reward |-> r,
                                    obs |-> o, done |-> d])
  /\ envSteps' = envSteps + 1
  /\ UNCHANGED << pc, heap, policy, i, episode_rewards, ret, evalCount,
                  caller, updateCount, updateArgs, updateSums, thetaSet,
                  thetaAtReset, resetObs >>
  /\ UNCHANGED trainVars

\* The tuple run_episode returns (lines 102-108).
RunEpisodeResult(f) ==
  [total_reward |-> f.totalreward, rewards |-> f.rewards,
   observations |-> f.observations, actions |-> f.actions,
   probs |-> f.probs]

\* RunEpisodeReturn with the evaluation loop updating the policy as the
\* training loop does.
RunEpisodeReturnEvalUpdates ==
  /\ pc = "while"
  /\ ~WhileCond
  /\ ep' = NoFrame
  /\ IF caller = "eval"
       THEN /\ evalCount' = evalCount + 1
            /\ pc' = "eval"
            /\ PolicyUpdate(ep.rewards, ep.observations, ep.actions)
            /\ UNCHANGED ret
       ELSE /\ ret' = RunEpisodeResult(ep)
            /\ pc' = IF caller = "train" THEN "record" ELSE "episode_returned"
            /\ UNCHANGED << evalCount, heap, updateCount, updateArgs, updateSums >>
  /\ UNCHANGED << policy, i, episode_rewards, caller, envSteps,
                  thetaSet, thetaAtReset, resetObs, envLog, actLog >>
  /\ UNCHANGED trainVars

\* run_episode, lines 102-108, returning into train's loop (line 136), into
\* the evaluation loop (line 155), which drops the result, or to a caller
\* that called run_episode itself.
RunEpisodeReturn ==
  /\ pc = "while"
  /\ ~WhileCond
  /\ ep' = NoFrame
  /\ IF caller = "eval"
       THEN /\ evalCount' = evalCount + 1
            /\ pc' = "eval"
            /\ UNCHANGED ret
       ELSE /\ ret' = RunEpisodeResult(ep)
            /\ pc' = IF caller = "train" THEN "record" ELSE "episode_returned"
            /\ UNCHANGED evalCount
  /\ UNCHANGED << heap, policy, i, episode_rewards, caller, envSteps,
                  updateCount, updateArgs, updateSums, thetaSet, thetaAtReset,
                  resetObs, envLog, actLog >>
  /\ UNCHANGED trainVars

\* train, line 139: episode_rewards.append(total_reward).
TrainRecord ==
  /\ pc = "record"
  /\ episode_rewards' = Append(episode_rewards, ret.total_reward)
  /\ pc' = "update"
  /\ UNCHANGED << heap, policy, i, ret, evalCount, caller, ep, envSteps,
                  updateCount, updateArgs, updateSums, thetaSet, thetaAtReset,
                  resetObs, envLog, actLog >>
  /\ UNCHANGED trainVars

\* TrainUpdate that skips the update after a one-step episode.
TrainUpdateSkipsShort ==
  /\ pc = "update"
  /\ IF Len(ret.rewards) > 1
       THEN /\ PolicyUpdate(ret.rewards, ret.observations, ret.actions)
            /\ thetaSet' = heap'[policy.params]
       ELSE UNCHANGED << heap, updateArgs, updateCount, updateSums, thetaSet >>
  /\ i' = i + 1
  /\ pc' = "loop"
  /\ UNCHANGED << policy, episode_rewards, ret, evalCount, caller, ep,
                  envSteps, thetaAtReset, resetObs, envLog, actLog >>
  /\ UNCHANGED trainVars

\* train, line 142: policy.update(rewards, observations, actions), then the
\* next iteration; an exception leaves train.
TrainUpdate ==
  /\ pc = "update"
  /\ PolicyUpdate(ret.rewards, ret.observations, ret.actions)
  /\ thetaSet' = heap'[policy.params]
  /\ IF PolicyUpdateRaises(ret.rewards, ret.observations, ret.actions) = "none"
       THEN i' = i + 1 /\ pc' = "loop"
       ELSE pc' = "raised" /\ UNCHANGED i
  /\ UNCHANGED << policy, episode_rewards, ret, evalCount, caller, ep,
                  envSteps, thetaAtReset, resetObs, envLog, actLog >>
  /\ UNCHANGED trainVars

\* train, lines 150 and 158: training finished, no evaluation; return.
TrainReturn ==
  /\ pc = "loop"
  /\ i >= MAX_EPISODES
  /\ ~evaluate
  /\ pc' = "returned"
  /\ UNCHANGED << heap, policy, i, episode_rewards, ret, evalCount, caller,
                  ep, envSteps, updateCount, updateArgs, updateSums, thetaSet,
                  thetaAtReset, resetObs, envLog, actLog >>
  /\ UNCHANGED trainVars

\* train, lines 150-153: evaluation requested; the environment is wrapped in a
\* Monitor, which passes reset and step through.
EvalStart ==
  /\ pc = "loop"
  /\ i >= MAX_EPISODES
  /\ evaluate
  /\ evalCount' = 0
  /\ pc' = "eval"
  /\ UNCHANGED << heap, policy, i, episode_rewards, ret, caller, ep,
                  envSteps, updateCount, updateArgs, updateSums, thetaSet,
                  thetaAtReset, resetObs, envLog, actLog >>
  /\ UNCHANGED trainVars

\* train, lines 154-155: another evaluation episode.
EvalNextEpisode ==
  /\ pc = "eval"
  /\ evalCount < EvalEpisodes
  /\ caller' = "eval"
  /\ pc' = "reset"
  /\ UNCHANGED << heap, policy, i, episode_rewards, ret, evalCount, ep,
                  envSteps, updateCount, updateArgs, updateSums, thetaSet,
                  thetaAtReset, resetObs, envLog, actLog >>
  /\ UNCHANGED trainVars

\* train, lines 156-158: evaluation finished; return.
EvalReturn ==
  /\ pc = "eval"
  /\ evalCount >= EvalEpisodes
  /\ pc' = "returned"
  /\ UNCHANGED << heap, policy, i, episode_rewards, ret, evalCount, caller,
                  ep, envSteps, updateCount, updateArgs, updateSums, thetaSet,
                  thetaAtReset, resetObs, envLog, actLog >>
  /\ UNCHANGED trainVars

Next ==
  \/ Construct
  \/ TrainNextEpisode
  \/ RunEpisodeReset
  \/ RunEpisodeStep
  \/ RunEpisodeReturn
  \/ TrainRecord
  \/ TrainUpdate
  \/ TrainReturn
  \/ EvalStart
  \/ EvalNextEpisode
  \/ EvalReturn

Spec == Init /\ [][Next]_vars

\* ------------------------------------------- update called on its own
RECURSIVE SeqsUpTo(_, _)
\* All sequences over S of length 0..n.
SeqsUpTo(S, n) ==
  IF n = 0 THEN { <<>> }
  ELSE LET shorter == SeqsUpTo(S, n - 1)
       IN  shorter \cup { Append(q, e) : q \in {t \in shorter : Len(t) = n - 1}, e \in S }

\* Everything of train at rest, for the specifications that call one method.
TrainIdle ==
  /\ params = CallerRef
  /\ MAX_EPISODES = 0
  /\ evaluate = FALSE
  /\ envTerminates = TRUE
  /\ envStart = ObsA
  /\ i = 0
  /\ episode_rewards = <<>>
  /\ ret = NoRet
  /\ evalCount = 0
  /\ caller = "none"
  /\ ep = NoFrame
  /\ envSteps = 0
  /\ updateCount = 0
  /\ updateArgs = NoArgs
  /\ updateSums = <<>>
  /\ thetaAtReset = <<>>
  /\ resetObs = <<>>
  /\ envLog = <<>>
  /\ actLog = <<>>

methodVars == << params, lr, gamma, MAX_EPISODES, evaluate, policy, i,
                 episode_rewards, ret, evalCount, caller, ep, envTerminates,
                 envStart, envSteps, params0, thetaAtReset, resetObs, envLog, actLog >>

\* A policy built on the caller's array (LogisticPolicy(params, lr, gamma)) and
\* about to receive update(rewards, obs, actions) with sequences of any
\* lengths 0..MaxT, equal or not.
UpdateInit ==
  /\ pc = "call_update"
  /\ \E p \in ParamSet : heap = [r \in {CallerRef} |-> p] /\ params0 = p /\ thetaSet = p
  /\ lr \in LrSet
  /\ gamma \in GammaSet
  /\ policy = LogisticPolicyInit(CallerRef, lr, gamma)
  /\ \E rs \in SeqsUpTo(RewardSet, MaxT), os \in SeqsUpTo(ObsSet, MaxT),
        as \in SeqsUpTo(ActionSet, MaxT) :
       arg = [op |-> "update", rewards |-> rs, obs |-> os, actions |-> as]
  /\ TrainIdle

\* The call policy.update(rewards, obs, actions).
UpdateCall ==
  /\ pc = "call_update"
  /\ PolicyUpdate(arg.rewards, arg.obs, arg.actions)
  /\ pc' = IF PolicyUpdateRaises(arg.rewards, arg.obs, arg.actions) = "none"
             THEN "update_returned" ELSE "update_raised"
  /\ UNCHANGED << arg, thetaSet >>
  /\ UNCHANGED methodVars

UpdateNext == UpdateCall

UpdateSpec == UpdateInit /\ [][UpdateNext]_vars

\* ---------------------------------- discount_rewards called on its own
\* A policy with discount factor gamma about to receive discount_rewards(rewards).
DiscountInit ==
  /\ pc = "call_discount"
  /\ \E p \in ParamSet : heap = [r \in {CallerRef} |-> p] /\ params0 = p /\ thetaSet = p
  /\ lr \in TrainLrSet
  /\ gamma \in GammaSet
  /\ policy = LogisticPolicyInit(CallerRef, lr, gamma)
  /\ \E rs \in SeqsUpTo(DiscountRewardSet, MaxT) :
       arg = [op |-> "discount_rewards", rewards |-> rs,
              result |-> <<>>, iterations |-> 0]
  /\ TrainIdle

\* The call policy.discount_rewards(rewards).
DiscountCall ==
  /\ pc = "call_discount"
  /\ LET run == DiscountRun(policy.gamma, arg.rewards)
     IN  arg' = [arg EXCEPT !.result = run.discounted_rewards,
                            !.iterations = run.iterations]
  /\ pc' = "discount_returned"
  /\ UNCHANGED << heap, updateCount, updateArgs, updateSums, thetaSet >>
  /\ UNCHANGED methodVars

DiscountNext == DiscountCall

DiscountSpec == DiscountInit /\ [][DiscountNext]_vars

\* --------------------------------------- run_episode called on its own
\* A policy and an environment about to be handed to run_episode(env, policy).
RunInit ==
  /\ pc = "reset"
  /\ \E p \in ParamSet : heap = [r \in {CallerRef} |-> p] /\ params0 = p /\ thetaSet = p
  /\ lr \in LrSet
  /\ gamma \in GammaSet
  /\ policy = LogisticPolicyInit(CallerRef, lr, gamma)
  /\ params = CallerRef
  /\ MAX_EPISODES = 0
  /\ evaluate = FALSE
  /\ envTerminates \in BOOLEAN
  /\ envStart \in ObsSet
  /\ i = 0
  /\ episode_rewards = <<>>
  /\ ret = NoRet
  /\ evalCount = 0
  /\ caller = "direct"
  /\ ep = NoFrame
  /\ envSteps = 0
  /\ updateCount = 0
  /\ updateArgs = NoArgs
  /\ updateSums = <<>>
  /\ thetaAtReset = <<>>
  /\ resetObs = <<>>
  /\ envLog = <<>>
  /\ actLog = <<>>
  /\ arg = NoArg

RunNext ==
  \/ RunEpisodeReset
  \/ RunEpisodeStep
  \/ RunEpisodeReturn

RunSpec == RunInit /\ [][RunNext]_vars

\* The interpreter keeps executing: a statement that can run does run.
RunLiveSpec == RunSpec /\ WF_vars(RunNext)

TypeOK == pc \in {"start", "loop", "reset", "while", "record", "update",
                  "raised", "eval", "returned", "call_update",
                  "update_returned", "update_raised", "call_discount",
                  "discount_returned", "episode_returned"}

\* ----------------------------------------------------------------- claims
RECURSIVE Pow(_, _)
Pow(b, n) == IF n = 0 THEN 1 ELSE b * Pow(b, n - 1)

\* C8: discount_rewards returns, for rewards of length T >= 1, a sequence of
\* length T with discounted[T] = rewards[T] and discounted[i] = rewards[i] +
\* gamma * discounted[i+1] below that (1-based), in one loop iteration per
\* reward; [r] gives [r], and [1,1,1] with gamma = 0.5 gives [1.75, 1.5, 1.0].
C8_DiscountRecurrence ==
  (pc = "discount_returned" /\ Len(arg.rewards) >= 1) =>
    LET T == Len(arg.rewards)
        d == arg.result
    IN  /\ Len(d) = T
        /\ d[T] = arg.rewards[T]
        /\ \A k \in 1..(T - 1) :
             GammaDen * d[k] = GammaDen * arg.rewards[k] + policy.gamma * d[k + 1]
        /\ arg.iterations = T
        /\ (T = 1 => d = arg.rewards)
        /\ (arg.rewards = <<RScale, RScale, RScale>> /\ 2 * policy.gamma = GammaDen
              => 4 * d[1] = 7 * RScale /\ 2 * d[2] = 3 * RScale /\ d[3] = RScale)

\* C8 witness: the example [1,1,1] with gamma = 0.5 has been discounted.
C8_Witness ==
  /\ pc = "discount_returned"
  /\ arg.rewards = <<RScale, RScale, RScale>>
  /\ 2 * policy.gamma = GammaDen
  /\ 4 * arg.result[1] = 7 * RScale

\* Reward-to-go from step k of rewards rs under gamma = g / GammaDen,
\* multiplied by GammaDen^Len(rs): the sum over m >= k of rs[m] * gamma^(m-k).
RewardToGoScaled(rs, g, k) ==
  LET T == Len(rs)
  IN  SumTo([m \in 1..T |->
               IF m < k THEN 0
               ELSE rs[m] * Pow(g, m - k) * Pow(GammaDen, T - (m - k))], T)

\* Gradient of log pi(a | x) at parameters th, closed form: x * (1 - sigma(y))
\* for a = 0 and -x * sigma(y) for a = 1, y = x . th.
TakenGrad(th, x, a) ==
  LET sig == logistic(Dot(x, th))
  IN  [j \in Dims |-> IF a = 0 THEN x[j] * (SigScale - sig) ELSE -(x[j] * sig)]

\* C9: one update on a complete episode of length T sets theta to
\* theta + lr * sum_i grad_i * discounted[i], grad_i the log-probability
\* gradient of the action taken at step i evaluated at the theta held before
\* the call, discounted[i] the reward-to-go; lr and gamma are unchanged.
C9_GradientAscentStep ==
  (/\ pc \in {"update_returned", "update_raised"}
   /\ Len(arg.obs) >= 1
   /\ Len(arg.rewards) = Len(arg.obs)
   /\ Len(arg.actions) = Len(arg.obs)) =>
    LET T == Len(arg.obs)
    IN  /\ pc = "update_returned"
        /\ Len(theta) = ObsDim
        /\ \A j \in Dims :
             (theta[j] - params0[j]) * Pow(GammaDen, T) =
               policy.lr *
                 SumTo([k \in 1..T |->
                          TakenGrad(params0, arg.obs[k], arg.actions[k])[j]
                            * RewardToGoScaled(arg.rewards, policy.gamma, k)], T)
        /\ policy.lr = lr
        /\ policy.gamma = gamma

\* C9 witness: an update on an episode of two or more steps moved theta.
C9_Witness ==
  /\ pc = "update_returned"
  /\ Len(arg.rewards) = Len(arg.obs)
  /\ Len(arg.actions) = Len(arg.obs)
  /\ Len(arg.obs) >= 2
  /\ theta # params0

\* C5: update called with sequences whose lengths are not all equal raises
\* and leaves theta as it was.
C5_MismatchFailsLoudly ==
  (/\ pc \in {"update_returned", "update_raised"}
   /\ ~(Len(arg.rewards) = Len(arg.obs) /\ Len(arg.actions) = Len(arg.obs)))
    => (pc = "update_raised" /\ theta = params0)

\* C4: the array the caller passed to train keeps its original values,
\* whatever the policy does to its parameters.
C4_CallerArrayKept == heap[params] = params0

\* The trajectory of the episode run last, as the policy and the environment
\* saw it: what env.step paid, what policy.act was shown and what it chose.
LoggedTrajectory ==
  [rewards |-> [k \in 1..Len(envLog) |-> envLog[k].reward],
   obs |-> [k \in 1..Len(actLog) |-> actLog[k].x],
   actions |-> [k \in 1..Len(actLog) |-> actLog[k].action]]

\* C1: train without evaluation returns MAX_EPISODES episode rewards and has
\* called policy.update MAX_EPISODES times: once after each episode, never
\* failing, with the trajectory of that episode.
C1_OneUpdatePerEpisode ==
  /\ pc # "raised"
  /\ updateCount = i
  /\ Len(episode_rewards) = (IF pc = "update" THEN i + 1 ELSE i)
  /\ (pc = "loop" /\ i >= 1) => updateArgs = LoggedTrajectory
  /\ (pc = "returned" /\ ~evaluate) =>
       (Len(episode_rewards) = MAX_EPISODES /\ updateCount = MAX_EPISODES)

\* C1 witness: train returned after two or more episodes, the last of more
\* than one step.
C1_Witness ==
  /\ pc = "returned"
  /\ ~evaluate
  /\ MAX_EPISODES >= 2
  /\ updateCount = MAX_EPISODES
  /\ Len(updateArgs.rewards) >= 2

\* C2: during and after the evaluation pass no update is made: the count of
\* updates stays MAX_EPISODES and theta stays what the last training update
\* left; the pass runs EvalEpisodes episodes.
C2_EvaluationFrozen ==
  /\ (pc = "eval" \/ caller = "eval") =>
       (theta = thetaSet /\ updateCount = MAX_EPISODES)
  /\ (pc = "returned" /\ evaluate) => evalCount = EvalEpisodes

\* C2 witness: train returned after training and a full evaluation pass.
C2_Witness ==
  /\ pc = "returned"
  /\ evaluate
  /\ MAX_EPISODES >= 1
  /\ evalCount = EvalEpisodes
  /\ theta # params0

\* C3: theta does not change between env.reset and the return of run_episode,
\* and every act call of training episode k sees the theta left by exactly
\* k - 1 updates (k - 1 = number of episode rewards recorded so far).
C3_ThetaFixedWithinEpisode ==
  /\ (pc \in {"while", "record"} \/ (pc = "eval" /\ evalCount >= 1)) =>
       theta = thetaAtReset
  /\ (caller = "train" /\ pc \in {"while", "record"}) =>
       /\ updateCount = Len(episode_rewards)
       /\ \A k \in 1..Len(actLog) :
            /\ actLog[k].theta = thetaSet
            /\ actLog[k].updates = Len(episode_rewards)

\* C3 witness: the second training episode is under way, two actions sampled,
\* and the first update moved theta.
C3_Witness ==
  /\ pc = "while"
  /\ caller = "train"
  /\ Len(episode_rewards) = 1
  /\ Len(actLog) = 2
  /\ thetaSet # params0

\* The returned trajectory t lines up, index by index, with what happened.
TrajectoryMatches(t) ==
  LET T == Len(envLog)
  IN  /\ T >= 1
      /\ Len(actLog) = T
      /\ Len(t.rewards) = T /\ Len(t.observations) = T
      /\ Len(t.actions) = T /\ Len(t.probs) = T
      /\ t.observations[1] = resetObs
      /\ \A k \in 1..T :
           /\ t.observations[k] = actLog[k].x
           /\ t.actions[k] = actLog[k].action
           /\ t.actions[k] = envLog[k].action
           /\ t.probs[k] = actLog[k].prob
           /\ t.probs[k] = action_probs(theta, t.observations[k])[t.actions[k] + 1]
           /\ t.rewards[k] = envLog[k].reward
      /\ \A k \in 1..(T - 1) : t.observations[k + 1] = envLog[k].obs

\* C6: the four sequences run_episode returns have one length T; index k of
\* each is step k: observations[1] is the reset observation, observations[k]
\* the one actions[k] was sampled on, probs[k] the probability the policy gave
\* actions[k] there, rewards[k] what the step taking actions[k] paid; the
\* observation of the terminating step is not among them.
C6_TrajectoryAligned ==
  /\ (pc = "while" /\ ep.done) => TrajectoryMatches(RunEpisodeResult(ep))
  /\ pc = "record" => TrajectoryMatches(ret)

\* C6 witness: an episode of two or more steps over different observations
\* has been returned to train.
C6_Witness ==
  /\ pc = "record"
  /\ Len(ret.observations) >= 2
  /\ ret.observations[1] # ret.observations[2]
  /\ ret.actions[1] # ret.actions[2]

\* C7: run_episode returns only right after the first env.step that reports
\* done, having made that many calls (at least one); with an environment that
\* never reports done it never returns, with one that does it returns.
C7_RunsUntilDone ==
  /\ [](pc = "episode_returned" =>
          /\ Len(envLog) >= 1
          /\ envSteps = Len(envLog)
          /\ envLog[Len(envLog)].done
          /\ \A k \in 1..(Len(envLog) - 1) : ~envLog[k].done)
  /\ [](~envTerminates => pc # "episode_returned")
  /\ ((pc = "reset" /\ envTerminates) ~> (pc = "episode_returned"))

\* C7 witness: run_episode returned after MaxLen steps, the last one done.
C7_Witness ==
  /\ pc = "episode_returned"
  /\ Len(envLog) = MaxLen
  /\ envLog[MaxLen].done

\* C10: the total reward run_episode returns is the sum of the rewards it
\* returns, so entry k of episode_rewards is the sum of the rewards passed to
\* the k-th update.
C10_TotalIsSumOfRewards ==
  /\ pc \in {"record", "update"} =>
       ret.total_reward = SumTo(ret.rewards, Len(ret.rewards))
  /\ Len(updateSums) = updateCount
  /\ \A k \in 1..updateCount : episode_rewards[k] = updateSums[k]

\* C10 witness: train returned two episodes with different totals, the last
\* of two or more steps.
C10_Witness ==
  /\ pc = "returned"
  /\ updateCount >= 2
  /\ episode_rewards[1] # episode_rewards[2]
  /\ Len(ret.rewards) >= 2

=============================================================================
